---- MODULE Spec2Model ----
(***************************************************************************)
(* Model of the speech-to-text scripts: the real-time listener thread of   *)
(* SpeechToTextModel.start_real_time_transcription and its caller in       *)
(* main() (speech_to_text.py), transcribe_audio_file / _recognize_audio    *)
(* (speech_to_text.py) and the chunk loop of voice_notetaker.py.           *)
(* The speech_recognition, sounddevice and whisper libraries are outside   *)
(* the repository: every call into them is a nondeterministic choice over  *)
(* the outcomes the call can have (a value, or one of its exceptions).     *)
(***************************************************************************)
EXTENDS Integers, Sequences, FiniteSets, TLC

\* ---------------------------------------------------------------- bounds
MaxLen == 2          \* longest text a recognizer returns in the model
MaxThreads == 2      \* listener threads that can be started
MaxTime == 7         \* the clock stops advancing here
MaxDuration == 2     \* largest duration argument tried
RecogMax == 1        \* longest time one recognition request takes
MaxChunks == 3       \* chunks the notetaker loop records
MaxCalls == 2        \* cap of the recognizer use counters

\* ------------------------------------------------------ program constants
ListenTimeout == 1       \* listen(source, timeout=1, ...)
PhraseTimeLimit == 5     \* listen(source, ..., phrase_time_limit=5)
ListenMax == ListenTimeout + PhraseTimeLimit

\* ------------------------------------------------------------------ texts
Chars == {" ", "a"}
Whitespace == {" "}
Texts == UNION {[1..n -> Chars] : n \in 0..MaxLen}

IsBlank(s) == \A i \in 1..Len(s) : s[i] \in Whitespace

RECURSIVE LStrip(_)
LStrip(s) == IF s # <<>> /\ Head(s) \in Whitespace THEN LStrip(Tail(s)) ELSE s

RECURSIVE RStrip(_)
RStrip(s) ==
    IF s # <<>> /\ s[Len(s)] \in Whitespace
    THEN RStrip(SubSeq(s, 1, Len(s) - 1))
    ELSE s

\* str.strip() with no argument: drops leading and trailing whitespace
StripIdentity(s) == s
Strip(s) == RStrip(LStrip(s))

\* ------------------------------------------------------- _recognize_audio
Supported == {"google", "sphinx", "azure", "bing"}
ModelTypes == Supported \cup {"whisper"}

Return(v) == [kind |-> "return", val |-> v, exc |-> "none"]
Raise(e) == [kind |-> "raise", val |-> <<>>, exc |-> e]

\* what a recognize_* call of the library can do
LibOutcomes ==
    {[kind |-> "text", text |-> s] : s \in Texts} \cup
    {[kind |-> k, text |-> <<>>] :
        k \in {"UnknownValueError", "RequestError", "TypeError"}}

RecognizeAudioNoCatch(mt, o) ==
    IF mt \in Supported
    THEN CASE o.kind = "text" -> Return(o.text)
           [] o.kind = "UnknownValueError" -> Return(<<>>)
           [] OTHER -> Raise(o.kind)
    ELSE Raise("ValueError")
RecognizeAudio(mt, o) ==
    IF mt \in Supported
    THEN CASE o.kind = "text" -> Return(o.text)
           [] o.kind = "UnknownValueError" -> Return(<<>>)
           [] o.kind = "RequestError" -> Return(<<>>)
           [] OTHER -> Raise(o.kind)
    ELSE Raise("ValueError")

\* does _recognize_audio reach the library at all
CallsLibrary(mt) == mt \in Supported

VARIABLES
    model_type, now, pc, duration, start_time, text, exc, trace,
    stopped, main_pc, joined,
    nt_pc, chunk, wavs, transcribed, nt_text, notes, nt_exc, intAt, goodbye,
    files, tf_pc, tf_path, tf_result, ra_result, lib_outcome,
    recordCalls, recogRequests, snap, mic_device

rtVars == <<now, pc, duration, start_time, text, exc, trace,
            stopped, main_pc, joined>>
ntVars == <<nt_pc, chunk, wavs, transcribed, nt_text, notes, nt_exc, intAt,
            goodbye>>
tfVars == <<files, tf_pc, tf_path, tf_result, ra_result, lib_outcome,
            recordCalls, recogRequests, snap, mic_device>>
vars == <<rtVars, ntVars, tfVars, model_type>>

\* ------------------------------------------------- real-time transcription
Threads == 1..MaxThreads
NoDuration == -1                       \* duration=None
Durations == {NoDuration} \cup (0..MaxDuration)
Truthy(d) == d # NoDuration /\ d # 0   \* `if duration and ...`

\* exceptions that `except Exception` catches (WaitTimeoutError is one too)
ExceptionKinds == {"WaitTimeoutError", "OSError", "ValueError", "TypeError",
                   "CallbackError"}
Live == {"check", "enter", "listen", "recognize", "callback", "handler"}

RTIdle ==
    /\ now = 0
    /\ pc = [t \in Threads |-> "idle"]
    /\ duration = [t \in Threads |-> NoDuration]
    /\ start_time = [t \in Threads |-> 0]
    /\ text = [t \in Threads |-> <<>>]
    /\ exc = [t \in Threads |-> "none"]
    /\ trace = [t \in Threads |-> <<>>]
    /\ stopped = [t \in Threads |-> FALSE]
    /\ main_pc = "menu"
    /\ joined = 0

NextIdle == CHOOSE t \in Threads : pc[t] = "idle" /\ \A u \in Threads : pc[u] = "idle" => t <= u

\* threading.Thread(target=listen_continuously, daemon=True).start(), and
\* the thread's first statement start_time = time.time()
StartThread(t, d) ==
    /\ pc' = [pc EXCEPT ![t] = "check"]
    /\ duration' = [duration EXCEPT ![t] = d]
    /\ start_time' = [start_time EXCEPT ![t] = now]

\* the call under observation: stt.start_real_time_transcription(callback, d)
ApiStart(d) ==
    /\ \A u \in Threads : pc[u] = "idle"
    /\ StartThread(NextIdle, d)
    /\ UNCHANGED <<now, text, exc, trace, stopped, main_pc, joined>>
    /\ UNCHANGED <<ntVars, tfVars, model_type>>

\* main(), choice == "3": start the thread without a duration, then join
MainChoose3 ==
    /\ main_pc = "menu"
    /\ \E u \in Threads : pc[u] = "idle"
    /\ StartThread(NextIdle, NoDuration)
    /\ main_pc' = "join"
    /\ joined' = NextIdle
    /\ UNCHANGED <<now, text, exc, trace, stopped>>
    /\ UNCHANGED <<ntVars, tfVars, model_type>>

\* thread.join() returns when the thread has ended
MainJoinReturn ==
    /\ main_pc = "join"
    /\ pc[joined] \in {"done", "dead"}
    /\ main_pc' = "menu"
    /\ UNCHANGED <<now, pc, duration, start_time, text, exc, trace,
                   stopped, joined>>
    /\ UNCHANGED <<ntVars, tfVars, model_type>>

\* except KeyboardInterrupt: print("Real-time transcription stopped.")
MainInterrupt ==
    /\ main_pc = "join"
    /\ stopped' = [stopped EXCEPT ![joined] = TRUE]
    /\ main_pc' = "menu"
    /\ UNCHANGED <<now, pc, duration, start_time, text, exc, trace,
                   joined>>
    /\ UNCHANGED <<ntVars, tfVars, model_type>>

\* main(), choice == "4": the process ends and takes its daemon threads along
MainChoose4 ==
    /\ main_pc = "menu"
    /\ main_pc' = "exited"
    /\ pc' = [t \in Threads |-> IF pc[t] \in Live THEN "killed" ELSE pc[t]]
    /\ UNCHANGED <<now, duration, start_time, text, exc, trace,
                   stopped, joined>>
    /\ UNCHANGED <<ntVars, tfVars, model_type>>

\* top of `while True`: the duration check
ThreadCheck(t) ==
    /\ pc[t] = "check"
    /\ pc' = [pc EXCEPT ![t] =
                IF Truthy(duration[t]) /\ (now - start_time[t]) > duration[t]
                THEN "done" ELSE "enter"]
    /\ text' = [text EXCEPT ![t] = <<>>]
    /\ exc' = [exc EXCEPT ![t] = "none"]
    /\ trace' = [trace EXCEPT ![t] = <<>>]
    /\ UNCHANGED <<now, duration, start_time, stopped, main_pc, joined>>
    /\ UNCHANGED <<ntVars, tfVars, model_type>>

\* `with self.microphone as source:` opens the device; the code holds no
\* lock, so whether a second thread gets in is the library's choice
ThreadEnter(t, ok) ==
    /\ pc[t] = "enter"
    /\ IF ok
       THEN /\ pc' = [pc EXCEPT ![t] = "listen"]
            /\ exc' = exc
       ELSE /\ pc' = [pc EXCEPT ![t] = "handler"]
            /\ exc' = [exc EXCEPT ![t] = "OSError"]
    /\ UNCHANGED <<now, duration, start_time, text, trace, stopped,
                   main_pc, joined>>
    /\ UNCHANGED <<ntVars, tfVars, model_type>>

ListenOutcomes == {"audio", "WaitTimeoutError", "OSError"}

\* self.recognizer.listen(source, timeout=1, phrase_time_limit=5), which
\* blocks for e seconds
ThreadListen(t, e, o) ==
    /\ pc[t] = "listen"
    /\ now + e <= MaxTime
    /\ o = "WaitTimeoutError" => e >= ListenTimeout
    /\ now' = now + e
    /\ IF o = "audio"
       THEN /\ pc' = [pc EXCEPT ![t] = "recognize"]
            /\ trace' = [trace EXCEPT ![t] = Append(@, "listen")]
            /\ exc' = exc
       ELSE /\ pc' = [pc EXCEPT ![t] = "handler"]
            /\ exc' = [exc EXCEPT ![t] = o]
            /\ trace' = trace
    /\ UNCHANGED <<duration, start_time, text, stopped, main_pc, joined>>
    /\ UNCHANGED <<ntVars, tfVars, model_type>>

\* text = self._recognize_audio(audio); if text.strip(): ...
ThreadRecognize(t, e, o) ==
    /\ pc[t] = "recognize"
    /\ now + e <= MaxTime
    /\ now' = now + e
    /\ LET r == RecognizeAudio(model_type, o) IN
       IF r.kind = "return"
       THEN /\ text' = [text EXCEPT ![t] = r.val]
            /\ trace' = [trace EXCEPT ![t] = Append(@, "recognize")]
            /\ pc' = [pc EXCEPT ![t] =
                        IF Strip(r.val) # <<>> THEN "callback" ELSE "check"]
            /\ exc' = exc
       ELSE /\ exc' = [exc EXCEPT ![t] = r.exc]
            /\ pc' = [pc EXCEPT ![t] = "handler"]
            /\ UNCHANGED <<text, trace>>
    /\ UNCHANGED <<duration, start_time, stopped, main_pc, joined>>
    /\ UNCHANGED <<ntVars, tfVars, model_type>>

\* the callback returns, raises an Exception, or raises something that is
\* not derived from Exception
CallbackOutcomes == {"ok", "CallbackError", "SystemExit"}

\* callback(text)
ThreadCallback(t, o) ==
    /\ pc[t] = "callback"
    /\ trace' = [trace EXCEPT ![t] = Append(@, "callback")]
    /\ IF o = "ok"
       THEN /\ pc' = [pc EXCEPT ![t] = "check"]
            /\ exc' = exc
       ELSE /\ pc' = [pc EXCEPT ![t] = "handler"]
            /\ exc' = [exc EXCEPT ![t] = o]
    /\ UNCHANGED <<now, duration, start_time, text, stopped, main_pc,
                   joined>>
    /\ UNCHANGED <<ntVars, tfVars, model_type>>

\* where the except clauses send the thread
HandleBreak(e) == IF e = "WaitTimeoutError" THEN "check" ELSE "dead"
Handle(e) ==
    IF e = "WaitTimeoutError" THEN "check"
    ELSE IF e \in ExceptionKinds THEN "check"
    ELSE "dead"

\* except sr.WaitTimeoutError: continue / except Exception: log, continue;
\* anything else leaves listen_continuously and ends the thread
ThreadHandler(t) ==
    /\ pc[t] = "handler"
    /\ pc' = [pc EXCEPT ![t] = Handle(exc[t])]
    /\ UNCHANGED <<now, duration, start_time, text, exc, trace,
                   stopped, main_pc, joined>>
    /\ UNCHANGED <<ntVars, tfVars, model_type>>

\* one step of some listener thread; LE and RE are the times a listen call
\* and a recognition request can take
ThreadStep(LE, RE) ==
    \E t \in Threads :
        \/ ThreadCheck(t)
        \/ \E ok \in BOOLEAN : ThreadEnter(t, ok)
        \/ \E e \in LE, o \in ListenOutcomes : ThreadListen(t, e, o)
        \/ \E e \in RE, o \in LibOutcomes : ThreadRecognize(t, e, o)
        \/ \E o \in CallbackOutcomes : ThreadCallback(t, o)
        \/ ThreadHandler(t)

NTParked ==
    /\ nt_pc = "off" /\ chunk = 0 /\ wavs = {} /\ transcribed = {}
    /\ nt_text = <<>> /\ notes = <<>> /\ nt_exc = "none" /\ intAt = "none"
    /\ goodbye = FALSE

TFParked ==
    /\ files = {} /\ tf_pc = "off" /\ tf_path = "none"
    /\ tf_result = Return(<<>>) /\ ra_result = Return(<<>>)
    /\ lib_outcome = "none" /\ recordCalls = 0 /\ recogRequests = 0
    /\ snap = <<"none", 0, 0, 0>> /\ mic_device = 0

\* one call of start_real_time_transcription with any duration, on a model
\* of any model_type, under a running clock
InitRT ==
    /\ RTIdle
    /\ model_type \in ModelTypes
    /\ NTParked
    /\ TFParked

NextRT ==
    \/ \E d \in Durations : ApiStart(d)
    \/ ThreadStep(0..ListenMax, 0..RecogMax)

SpecRT == InitRT /\ [][NextRT]_vars

\* main() of speech_to_text.py: SpeechToTextModel(model_type="google"), and
\* option 3 chosen any number of times.  Every thread has duration None, so
\* no step reads the clock and the clock is left at 0.
InitMenu ==
    /\ RTIdle
    /\ model_type = "google"
    /\ NTParked
    /\ TFParked

NextMenu ==
    \/ MainChoose3
    \/ MainJoinReturn
    \/ MainInterrupt
    \/ MainChoose4
    \/ ThreadStep({0}, {0})

SpecMenu == InitMenu /\ [][NextMenu]_vars

\* ------------------------------------------------------ voice_notetaker.py
NTLoop == {"timestamp", "rec", "write", "transcribe", "branch",
           "append_open", "append_write", "append_print", "nospeech"}

\* whisper's result: a dict with a "text" entry, or without one
NTResults == {[has |-> TRUE, text |-> s] : s \in Texts} \cup
             {[has |-> FALSE, text |-> <<>>]}

\* result.get("text", "")
ResultGet(r) == IF r.has THEN r.text ELSE <<>>

NTGo(p) == /\ nt_pc' = p
           /\ UNCHANGED <<chunk, wavs, transcribed, nt_text, notes, nt_exc,
                          intAt, goodbye>>

\* a library call of the loop raises; main() has no handler for it
NTFail(e) == /\ nt_pc' = "crashed"
             /\ nt_exc' = e
             /\ UNCHANGED <<chunk, wavs, transcribed, nt_text, notes, intAt,
                            goodbye>>

\* timestamp = ...; wav_path = os.path.join(OUTPUT_DIR, ...)
NTTimestamp ==
    /\ nt_pc = "timestamp"
    /\ chunk <= MaxChunks
    /\ NTGo("rec")
    /\ UNCHANGED <<rtVars, tfVars, model_type>>

\* record_chunk: sd.rec(...) and sd.wait()
NTRecord(ok) ==
    /\ nt_pc = "rec"
    /\ IF ok THEN NTGo("write") ELSE NTFail("PortAudioError")
    /\ UNCHANGED <<rtVars, tfVars, model_type>>

\* record_chunk: write(filename, SAMPLE_RATE, audio)
NTWrite(ok) ==
    /\ nt_pc = "write"
    /\ IF ok
       THEN /\ wavs' = wavs \cup {chunk}
            /\ nt_pc' = "transcribe"
            /\ UNCHANGED <<chunk, transcribed, nt_text, notes, nt_exc, intAt,
                           goodbye>>
       ELSE NTFail("OSError")
    /\ UNCHANGED <<rtVars, tfVars, model_type>>

\* result = model.transcribe(wav_path, fp16=False)
\* text = result.get("text", "").strip()
NTTranscribe(ok, r) ==
    /\ nt_pc = "transcribe"
    /\ IF ok
       THEN /\ transcribed' = transcribed \cup {chunk}
            /\ nt_text' = Strip(ResultGet(r))
            /\ nt_pc' = "branch"
            /\ UNCHANGED <<chunk, wavs, notes, nt_exc, intAt, goodbye>>
       ELSE NTFail("RuntimeError")
    /\ UNCHANGED <<rtVars, tfVars, model_type>>

\* `if text:`
BranchAlways(t) == "append_open"
Branch(t) == IF t # <<>> THEN "append_open" ELSE "nospeech"

NTBranch ==
    /\ nt_pc = "branch"
    /\ NTGo(Branch(nt_text))
    /\ UNCHANGED <<rtVars, tfVars, model_type>>

NTAppendOpenWrites(ok) ==
    /\ nt_pc = "append_open"
    /\ nt_pc' = "append_write"
    /\ notes' = Append(notes, [chunk |-> chunk, text |-> Strip(nt_text)])
    /\ UNCHANGED <<chunk, wavs, transcribed, nt_text, nt_exc, intAt, goodbye>>
    /\ UNCHANGED <<rtVars, tfVars, model_type>>

\* append_to_notes: line = ...; open(NOTES_FILE, "a", encoding="utf-8")
NTAppendOpen(ok) ==
    /\ nt_pc = "append_open"
    /\ IF ok THEN NTGo("append_write") ELSE NTFail("OSError")
    /\ UNCHANGED <<rtVars, tfVars, model_type>>

\* the line append_to_notes writes for a chunk
NotesLine(c, t) == [chunk |-> c, text |-> Strip(t)]

\* append_to_notes: f.write(line), and the file closed on leaving `with`
NTAppendWrite ==
    /\ nt_pc = "append_write"
    /\ notes' = Append(notes, NotesLine(chunk, nt_text))
    /\ nt_pc' = "append_print"
    /\ UNCHANGED <<chunk, wavs, transcribed, nt_text, nt_exc, intAt, goodbye>>
    /\ UNCHANGED <<rtVars, tfVars, model_type>>

\* end of the iteration: the print of append_to_notes, or the 'no speech'
\* print, and back to the top of `while True`
NTIterationEnd ==
    /\ nt_pc \in {"append_print", "nospeech"}
    /\ nt_pc' = "timestamp"
    /\ chunk' = chunk + 1
    /\ nt_text' = <<>>
    /\ UNCHANGED <<wavs, transcribed, notes, nt_exc, intAt, goodbye>>
    /\ UNCHANGED <<rtVars, tfVars, model_type>>

\* Ctrl+C while the loop is at any of its statements
NTInterrupt ==
    /\ nt_pc \in NTLoop
    /\ intAt' = nt_pc
    /\ nt_exc' = "KeyboardInterrupt"
    /\ nt_pc' = "except"
    /\ UNCHANGED <<chunk, wavs, transcribed, nt_text, notes, goodbye>>
    /\ UNCHANGED <<rtVars, tfVars, model_type>>

\* except KeyboardInterrupt: print(... "Goodbye!"), and main() returns
NTExcept ==
    /\ nt_pc = "except"
    /\ goodbye' = TRUE
    /\ nt_pc' = "returned"
    /\ UNCHANGED <<chunk, wavs, transcribed, nt_text, notes, nt_exc, intAt>>
    /\ UNCHANGED <<rtVars, tfVars, model_type>>

RTParked == RTIdle /\ model_type = "none"

InitNT ==
    /\ nt_pc = "timestamp" /\ chunk = 1 /\ wavs = {} /\ transcribed = {}
    /\ nt_text = <<>> /\ notes = <<>> /\ nt_exc = "none" /\ intAt = "none"
    /\ goodbye = FALSE
    /\ RTParked
    /\ TFParked

NextNT ==
    \/ NTTimestamp
    \/ \E ok \in BOOLEAN : NTRecord(ok)
    \/ \E ok \in BOOLEAN : NTWrite(ok)
    \/ \E ok \in BOOLEAN, r \in NTResults : NTTranscribe(ok, r)
    \/ NTBranch
    \/ \E ok \in BOOLEAN : NTAppendOpen(ok)
    \/ NTAppendWrite
    \/ NTIterationEnd
    \/ NTInterrupt
    \/ NTExcept

SpecNT == InitNT /\ [][NextNT]_vars

\* ------------------------------------------------- transcribe_audio_file
Paths == {"a.wav", "b.wav"}
Devices == {0, 1}

\* os.path.exists(file_path)
PathExistsAlways(p, fs) == TRUE
PathExists(p, fs) == p \in fs

\* the try/except of transcribe_audio_file around _recognize_audio
TranscribeResult(r) ==
    IF r.kind = "return" THEN Return(r.val)
    ELSE IF r.exc \in {"UnknownValueError", "RequestError"} THEN Return(<<>>)
    ELSE Raise(r.exc)

\* the fields of the model object and the use made of its recognizer
ModelState == <<model_type, mic_device, recordCalls, recogRequests>>

\* stt.transcribe_audio_file(p) is called
TFCall(p) ==
    /\ tf_pc = "idle"
    /\ recordCalls < MaxCalls
    /\ recogRequests < MaxCalls
    /\ tf_pc' = "check"
    /\ tf_path' = p
    /\ snap' = ModelState
    /\ lib_outcome' = "none"
    /\ UNCHANGED <<files, tf_result, ra_result, recordCalls, recogRequests,
                   mic_device>>
    /\ UNCHANGED <<rtVars, ntVars, model_type>>

\* if not os.path.exists(file_path): raise FileNotFoundError(...)
TFCheck ==
    /\ tf_pc = "check"
    /\ IF PathExists(tf_path, files)
       THEN /\ tf_pc' = "open"
            /\ tf_result' = tf_result
       ELSE /\ tf_pc' = "finished"
            /\ tf_result' = Raise("FileNotFoundError")
    /\ UNCHANGED <<files, tf_path, ra_result, lib_outcome, recordCalls,
                   recogRequests, snap, mic_device>>
    /\ UNCHANGED <<rtVars, ntVars, model_type>>

\* with sr.AudioFile(file_path) as source: audio = self.recognizer.record(source)
\* (AudioFile rejects a file it cannot read)
TFRecord(ok) ==
    /\ tf_pc = "open"
    /\ IF ok
       THEN /\ recordCalls' = recordCalls + 1
            /\ tf_pc' = "recognize"
            /\ tf_result' = tf_result
       ELSE /\ recordCalls' = recordCalls
            /\ tf_pc' = "finished"
            /\ tf_result' = Raise("AudioFileError")
    /\ UNCHANGED <<files, tf_path, ra_result, lib_outcome, recogRequests,
                   snap, mic_device>>
    /\ UNCHANGED <<rtVars, ntVars, model_type>>

\* text = self._recognize_audio(audio), inside the try/except
TFRecognize(o) ==
    /\ tf_pc = "recognize"
    \* an unsupported model_type never reaches the library: one outcome only
    /\ CallsLibrary(model_type) \/ o.kind = "TypeError"
    /\ lib_outcome' = IF CallsLibrary(model_type) THEN o.kind ELSE "uncalled"
    /\ recogRequests' = recogRequests + (IF CallsLibrary(model_type) THEN 1 ELSE 0)
    /\ ra_result' = RecognizeAudio(model_type, o)
    /\ tf_result' = TranscribeResult(RecognizeAudio(model_type, o))
    /\ tf_pc' = "finished"
    /\ UNCHANGED <<files, tf_path, recordCalls, snap, mic_device>>
    /\ UNCHANGED <<rtVars, ntVars, model_type>>

\* the call has returned or raised; the caller goes on
TFFinish ==
    /\ tf_pc = "finished"
    /\ tf_pc' = "idle"
    /\ UNCHANGED <<files, tf_path, tf_result, ra_result, lib_outcome,
                   recordCalls, recogRequests, snap, mic_device>>
    /\ UNCHANGED <<rtVars, ntVars, model_type>>

\* stt.record_audio(duration, f) saves a recording under the name f
RecordAudio(f) ==
    /\ tf_pc = "idle"
    /\ f \notin files
    /\ files' = files \cup {f}
    /\ UNCHANGED <<tf_pc, tf_path, tf_result, ra_result, lib_outcome,
                   recordCalls, recogRequests, snap, mic_device>>
    /\ UNCHANGED <<rtVars, ntVars, model_type>>

\* stt.set_microphone(i)
SetMicrophone(i) ==
    /\ tf_pc = "idle"
    /\ mic_device # i
    /\ mic_device' = i
    /\ UNCHANGED <<files, tf_pc, tf_path, tf_result, ra_result, lib_outcome,
                   recordCalls, recogRequests, snap>>
    /\ UNCHANGED <<rtVars, ntVars, model_type>>

InitTF ==
    /\ files \in SUBSET Paths
    /\ tf_pc = "idle" /\ tf_path = "none"
    /\ tf_result = Return(<<>>) /\ ra_result = Return(<<>>)
    /\ lib_outcome = "none" /\ recordCalls = 0 /\ recogRequests = 0
    /\ mic_device = 0
    /\ model_type \in ModelTypes
    /\ snap = <<model_type, 0, 0, 0>>
    /\ RTIdle
    /\ NTParked

NextTF ==
    \/ \E p \in Paths : TFCall(p)
    \/ TFCheck
    \/ \E ok \in BOOLEAN : TFRecord(ok)
    \/ \E o \in LibOutcomes : TFRecognize(o)
    \/ TFFinish
    \/ \E f \in Paths : RecordAudio(f)
    \/ \E i \in Devices : SetMicrophone(i)

SpecTF == InitTF /\ [][NextTF]_vars

\* ================================================================ claims

Count(x, sq) == Cardinality({i \in 1..Len(sq) : sq[i] = x})

\* C1: with a duration d given (here d >= 1; d = 0 never ends the loop at
\* all), the callback is never invoked once more than d seconds have passed
\* since the worker thread started.
C1_CallbackWithinDuration ==
    \A t \in Threads :
        (pc[t] = "callback" /\ duration[t] >= 1)
            => (now - start_time[t]) <= duration[t]

\* C2: once main() has printed 'Real-time transcription stopped.' for a
\* thread, that thread invokes the callback no more, and no two listener
\* threads are inside `with self.microphone` at once.
C2_StoppedMeansStopped ==
    /\ \A t \in Threads : stopped[t] => pc[t] # "callback"
    /\ Cardinality({t \in Threads : pc[t] = "listen"}) <= 1

\* C3: in each iteration the callback is invoked at most once, only after
\* listen and _recognize_audio have both returned in that iteration, and
\* never with an empty or whitespace-only text.
C3_CallbackOnlyWithText ==
    \A t \in Threads :
        /\ Count("callback", trace[t]) <= 1
        /\ (pc[t] = "callback" => Count("callback", trace[t]) = 0)
        /\ (pc[t] = "callback" \/ Count("callback", trace[t]) > 0)
              => /\ Len(trace[t]) >= 2
                 /\ trace[t][1] = "listen"
                 /\ trace[t][2] = "recognize"
                 /\ ~IsBlank(text[t])

\* a callback has run on a text with surrounding whitespace
C3_Witness ==
    \E t \in Threads :
        /\ trace[t] = <<"listen", "recognize", "callback">>
        /\ Len(text[t]) > Len(Strip(text[t]))

HasLine(c) == \E i \in 1..Len(notes) : notes[i].chunk = c

\* C4: a line is appended for a chunk only after the chunk's WAV has been
\* written and transcribed, at most one line per chunk, only with a
\* non-empty stripped transcript, in chunk order, and a chunk's recording
\* starts only when every earlier chunk has finished its append or its
\* 'no speech' branch.
C4_LinearChunkSequence ==
    /\ \A i \in 1..Len(notes) :
          /\ notes[i].chunk \in wavs \cap transcribed
          /\ notes[i].chunk <= chunk
          /\ notes[i].text # <<>>
          /\ ~IsBlank(notes[i].text)
          /\ notes[i].text = Strip(notes[i].text)
    /\ \A i, j \in 1..Len(notes) : i < j => notes[i].chunk < notes[j].chunk
    /\ (HasLine(chunk) /\ nt_pc \in NTLoop) => nt_pc = "append_print"
    /\ nt_pc \in {"append_open", "append_write", "append_print", "nospeech"}
          => chunk \in wavs \cap transcribed
    /\ nt_pc \in {"append_open", "append_write", "append_print"}
          => nt_text # <<>>
    /\ \A c \in 1..(chunk - 1) : c \in wavs \cap transcribed

\* the third chunk is being recorded after one chunk gave a line and one
\* gave none
C4_Witness == nt_pc = "rec" /\ chunk = 3 /\ Len(notes) = 1

NTLeft == nt_pc \in {"except", "returned", "crashed"}

\* what C5 says of leaving the loop: only an exception leaves it, and a
\* KeyboardInterrupt leads to the goodbye message and a normal return
C5_Exit ==
    /\ NTLeft => nt_exc # "none"
    /\ nt_exc = "KeyboardInterrupt" => nt_pc \in {"except", "returned"}
    /\ nt_pc = "returned" => goodbye /\ nt_exc = "KeyboardInterrupt"
    /\ goodbye => nt_pc = "returned"

\* C5 (as stated): the loop is left only by an exception, a
\* KeyboardInterrupt at any step ends it with the goodbye message and a
\* normal return, and the chunk in progress at the interrupt has no line
\* in the notes file.
C5_InterruptAddsNoLine ==
    /\ C5_Exit
    /\ nt_exc = "KeyboardInterrupt" => ~HasLine(chunk)

\* C5 (amended): as above, but the chunk in progress has no line unless
\* the interrupt arrived after append_to_notes had written the line.
C5_InterruptAddsNoLineBeforeWrite ==
    /\ C5_Exit
    /\ (nt_exc = "KeyboardInterrupt" /\ intAt # "append_print")
          => ~HasLine(chunk)
    /\ (nt_exc = "KeyboardInterrupt" /\ intAt = "append_print")
          => HasLine(chunk)

\* an interrupt during the transcription of a later chunk, handled
C5_Witness ==
    /\ nt_pc = "returned" /\ goodbye
    /\ intAt = "transcribe"
    /\ Len(notes) >= 1
    /\ ~HasLine(chunk)

\* C6: transcribe_audio_file on a path that does not exist raises
\* FileNotFoundError with no record call and no recognition request, and
\* leaves the model's state as it was at the call.
C6_MissingFileRaisesFirst ==
    /\ tf_pc \in {"open", "recognize"} => tf_path \in files
    /\ (tf_pc = "finished" /\ tf_path \notin files)
          => /\ tf_result = Raise("FileNotFoundError")
             /\ lib_outcome = "none"
             /\ ModelState = snap

\* a call on a missing path has raised, on a model that was used before
C6_Witness ==
    /\ tf_pc = "finished"
    /\ tf_path \notin files
    /\ tf_result.kind = "raise"
    /\ recordCalls > 0 /\ recogRequests > 0

\* C7: for a supported model_type, UnknownValueError and RequestError from
\* the recognizer make _recognize_audio and transcribe_audio_file return
\* the empty string; for any other model_type _recognize_audio raises
\* ValueError and transcribe_audio_file lets it through.
C7_FailuresAsValues ==
    (tf_pc = "finished" /\ lib_outcome # "none") =>
        /\ (model_type \in Supported
              /\ lib_outcome \in {"UnknownValueError", "RequestError"})
              => /\ ra_result = Return(<<>>)
                 /\ tf_result = Return(<<>>)
        /\ model_type \notin Supported
              => /\ lib_outcome = "uncalled"
                 /\ ra_result = Raise("ValueError")
                 /\ tf_result = Raise("ValueError")

\* the google recognizer has failed with RequestError and "" came back
C7_Witness ==
    /\ tf_pc = "finished"
    /\ model_type = "google"
    /\ lib_outcome = "RequestError"
    /\ tf_result = Return(<<>>)

\* C8: an Exception raised in an iteration (WaitTimeoutError or another
\* one from the microphone, listen, _recognize_audio or the callback) takes
\* the thread to its handler and from there to the duration check (unless
\* the process exits meanwhile); the thread ends on its own only by the
\* duration check or by an exception that is not an Exception.
C8_ExceptionsKeepLooping ==
    [][\A t \in Threads :
          /\ (exc'[t] # exc[t] /\ exc'[t] # "none") => pc'[t] = "handler"
          /\ (pc[t] = "handler" /\ exc[t] \in ExceptionKinds)
                => pc'[t] \in {"handler", "check", "killed"}
          /\ (pc[t] \in Live /\ pc'[t] \in {"done", "dead"})
                => \/ pc[t] = "check" /\ pc'[t] = "done"
                   \/ pc[t] = "handler" /\ exc[t] \notin ExceptionKinds]_vars

\* a ValueError of an unsupported model_type was caught and the thread is
\* back at the duration check
C8_Witness ==
    \E t \in Threads : pc[t] = "check" /\ exc[t] = "ValueError"
====
